---------------------------- MODULE Spec2Model ----------------------------
(***************************************************************************)
(* Model of backend/server.py: the URL recognition request                 *)
(* (recognize_from_url), its audio extraction (extract_audio_from_url),    *)
(* the per-segment recognition (recognize_with_audd) and the best-match    *)
(* reduction (recognize_multiple_segments).                                *)
(*                                                                         *)
(* One behaviour of Spec is one request.  The request's inputs (start_time,*)
(* sample_multiple), the configuration (AUDD_API_TOKEN) and the media's    *)
(* duration are fixed in Init; every call that leaves the process          *)
(* (yt-dlp's extract_info and download, the POST to api.audd.io) is one    *)
(* step whose outcome is chosen nondeterministically.                      *)
(*                                                                         *)
(* Numbers: seconds are integers; a confidence is in hundredths            *)
(* (0.85 is 85).                                                           *)
(***************************************************************************)
EXTENDS Integers, Sequences, FiniteSets, TLC

VARIABLES
    pc,               \* position of the request handler
    start_time,       \* Form field start_time: its ':'-separated fields, <<>> when None or ""
    sample_multiple,  \* Form field sample_multiple
    token,            \* settings.AUDD_API_TOKEN is non-empty
    duration,         \* info['duration'] of the media
    strategy,         \* branch taken at server.py:140/186/218
    windows,          \* the windows of the chosen strategy, as segments_processed describes them
    i,                \* loop index of the extraction loop in progress
    segments1,        \* audio_segments of extract_audio_from_url (first pass)
    audio_data,       \* the (audio_data, filename) extract_audio_from_url returned: <<>> or <<segment>>
    metadata,         \* metadata['segments_processed']
    audio_segments,   \* audio_segments of recognize_from_url (second pass)
    j,                \* loop index of recognize_multiple_segments
    best_result,      \* <<>> (None) or <<result>>
    best_confidence,
    all_results,
    result,           \* the dict recognize_from_url turns into a response: <<>> or <<result>>
    response,         \* <<>> while running, then <<[status, code, message, ...]>>
    attempted,        \* history: the <<pass, window>> whose download was started
    submitted,        \* history: the segments handed to recognize_with_audd, in order
    outcomes,         \* history: the outcome recognize_with_audd returned for each of them
    contacted         \* history: number of POSTs to api.audd.io

vars == << pc, start_time, sample_multiple, token, duration, strategy, windows, i,
           segments1, audio_data, metadata, audio_segments, j, best_result,
           best_confidence, all_results, result, response, attempted, submitted,
           outcomes, contacted >>

---------------------------------------------------------------------------
(* Bounds and program constants *)

\* Largest media duration (seconds) the selector is checked on.
MaxDuration == 1300

\* server.py:90  "confidence": 0.85
NominalConfidence == 85
\* server.py:258  result.get("confidence", 0.5)
DefaultConfidence == 50
\* server.py:140  duration > 180
LongThreshold == 180
\* server.py:143  duration > 600
VeryLongThreshold == 600
\* server.py:157  '-t', '30'
ClipSeconds == 30

\* A field of start_time.split(':'): int() parses it to v, or raises ValueError.
Field(v) == [int |-> TRUE, v |-> v]
BadField == [int |-> FALSE, v |-> 0]

\* The start_time values of the requests modelled: None, "1:30", "0:01:00",
\* "0:10", "90", "0:0:0:5", "x:10", "0:-5", "6:00".
StartTimes ==
    { <<>>,
      <<Field(1), Field(30)>>,
      <<Field(0), Field(1), Field(0)>>,
      <<Field(0), Field(10)>>,
      <<Field(90)>>,
      <<Field(0), Field(0), Field(0), Field(5)>>,
      <<BadField, Field(10)>>,
      <<Field(0), Field(-5)>>,
      <<Field(6), Field(0)>> }

\* The media durations of the requests modelled (info.get('duration', 0),
\* taken to be a whole number of seconds; 0 is the value of a source that
\* reports none).
Durations == {0, 20, 30, 45, 180, 181, 500, 600, 601, 900}

\* Titles the recognition service may answer with.
Titles == {"song_a", "song_b"}

---------------------------------------------------------------------------
(* Pure parts of the code *)

\* server.py:190-196: the start second of a start_time (the int() calls may raise).
ParseRaises(st) ==
    \/ Len(st) = 2 /\ (~st[1].int \/ ~st[2].int)
    \/ Len(st) = 3 /\ (~st[1].int \/ ~st[2].int \/ ~st[3].int)

StartSeconds(st) ==
    IF Len(st) = 2 THEN st[1].v * 60 + st[2].v
    ELSE IF Len(st) = 3 THEN st[1].v * 3600 + st[2].v * 60 + st[3].v
    ELSE 0

\* int(x) of Python for a rational n/d, d > 0: truncation toward zero.
IntTrunc(n, d) == IF n >= 0 THEN n \div d ELSE -((-n) \div d)

\* Sample points whose four-window rule starts at 600 seconds, not above.
SamplePointsFrom600(d) ==
    IF d >= VeryLongThreshold
    THEN << 0, IntTrunc(d, 4), IntTrunc(d, 2), IntTrunc(3 * d, 4) >>
    ELSE << 0, IntTrunc(d, 2) >>

\* server.py:142-146, each point as int(start_sec) (lines 156, 173).
SamplePoints(d) ==
    IF d > VeryLongThreshold
    THEN << 0, IntTrunc(d, 4), IntTrunc(d, 2), IntTrunc(3 * d, 4) >>
    ELSE << 0, IntTrunc(d, 2) >>

\* server.py:353-357, the same list computed again by recognize_from_url.
ReSamplePoints(d) ==
    IF d > VeryLongThreshold
    THEN << 0, IntTrunc(d, 4), IntTrunc(d, 2), IntTrunc(3 * d, 4) >>
    ELSE << 0, IntTrunc(d, 2) >>

\* A choice of branch that tests start_time before sample_multiple.
StrategyStartFirst(sm, st, d) ==
    IF st # <<>> THEN "specific"
    ELSE IF sm /\ d > LongThreshold THEN "multiple"
    ELSE "default"

\* server.py:140, 186, 218: the branch extract_audio_from_url takes.
Strategy(sm, st, d) ==
    IF sm /\ d > LongThreshold THEN "multiple"
    ELSE IF st # <<>> THEN "specific"
    ELSE "default"

\* server.py:337: the branch recognize_from_url takes.
MultiBranch(sm, d) == sm /\ d > LongThreshold

\* The entry of metadata['segments_processed'] for a window
\* (server.py:176-180, 211-215, 231-235).
Window(k, s) == [segment |-> k, start_time |-> s, duration |-> ClipSeconds]

\* The windows of a strategy: enumerate(sample_points), the window at
\* start_seconds, or the window at 0.
WindowsOf(strat, st, d) ==
    IF strat = "multiple"
    THEN [k \in 1..Len(SamplePoints(d)) |-> Window(k - 1, SamplePoints(d)[k])]
    ELSE IF strat = "specific" THEN << Window(0, StartSeconds(st)) >>
    ELSE << Window(0, 0) >>

---------------------------------------------------------------------------
(* Dicts and responses *)

Msg(text, a, b) == [text |-> text, a |-> a, b |-> b]
NoMsg == Msg("", 0, 0)
NoInfo == [segment_number |-> 0, start_time |-> 0]

\* A result dict.  keys is the set of keys the dict holds; a field whose key
\* is absent holds a filler that nothing reads.
Dict(keys, status, title, confidence, message) ==
    [ keys |-> keys, status |-> status, title |-> title,
      confidence |-> confidence, message |-> message,
      segment_info |-> NoInfo, all_segments_tried |-> 0,
      successful_segments |-> 0 ]

\* What the POST to api.audd.io can do (server.py:74-107): answer 200 with a
\* result, answer 200 without one, answer another status, or raise.
Matches == { [kind |-> "match", title |-> t] : t \in Titles }
NoMatch == [kind |-> "no_match", title |-> ""]
BadStatus == [kind |-> "bad_status", title |-> ""]
Raised == [kind |-> "exception", title |-> ""]
NotCalled == [kind |-> "not_called", title |-> ""]
ServiceAnswers == Matches \cup {NoMatch, BadStatus, Raised}

\* server.py:63: the POST is made only with a token.
Contacts(tok) == tok

\* The answers recognize_with_audd can meet: none is awaited without a token.
AnswersFor(tok) == IF Contacts(tok) THEN ServiceAnswers ELSE {NotCalled}

\* server.py:61-107
recognize_with_audd(tok, svc) ==
    IF ~tok
    THEN Dict({"status", "message"}, "error", "", 0,
              Msg("AudD API token not configured", 0, 0))
    ELSE IF svc.kind = "match"
    THEN Dict({"status", "title", "artist", "album", "release_date", "confidence"},
              "success", svc.title, NominalConfidence, NoMsg)
    ELSE IF svc.kind = "no_match"
    THEN Dict({"status", "message"}, "not_found", "", 0,
              Msg("No match found for this audio", 0, 0))
    ELSE IF svc.kind = "bad_status"
    THEN Dict({"status", "message"}, "error", "", 0,
              Msg("API request failed with status", 0, 0))
    ELSE Dict({"status", "message"}, "error", "", 0,
              Msg("Recognition failed", 0, 0))

\* server.py:258  result.get("confidence", 0.5)
ConfidenceOf(r) ==
    IF "confidence" \in r.keys THEN r.confidence ELSE DefaultConfidence

\* server.py:259-262: the segment_info of the k-th (from 0) segment of the list.
WithSegmentInfo(r, k, seg) ==
    [r EXCEPT !.keys = @ \cup {"segment_info"},
              !.segment_info = [segment_number |-> k, start_time |-> seg.start_time]]

\* A return that reports every segment tried as successful.
AggregateCountsAll(best, all, segs) ==
    IF best # <<>>
    THEN [best[1] EXCEPT
            !.keys = @ \cup {"metadata", "all_segments_tried", "successful_segments"},
            !.all_segments_tried = Len(segs),
            !.successful_segments = Len(segs)]
    ELSE Dict({"status", "message", "metadata"}, "not_found", "", 0,
              Msg("No matches found in segments analyzed", Len(segs), 0))

\* server.py:273-283: what recognize_multiple_segments returns after its loop.
Aggregate(best, all, segs) ==
    IF best # <<>>
    THEN [best[1] EXCEPT
            !.keys = @ \cup {"metadata", "all_segments_tried", "successful_segments"},
            !.all_segments_tried = Len(segs),
            !.successful_segments = Len(all)]
    ELSE Dict({"status", "message", "metadata"}, "not_found", "", 0,
              Msg("No matches found in segments analyzed", Len(segs), 0))

\* A response of the endpoint: MusicRecognitionResult (code 200) or HTTPException.
Response(status, code, title, confidence, message) ==
    [status |-> status, code |-> code, title |-> title,
     confidence |-> confidence, message |-> message]

\* server.py:245: extract_audio_from_url's only way to fail.
ExtractionFailed == Response("error", 400, "", 0, Msg("Failed to extract audio from URL", 0, 0))

\* server.py:402-417
ResponseOf(r) ==
    IF r.status = "success"
    THEN Response("success", 200, r.title, ConfidenceOf(r),
            IF "all_segments_tried" \in r.keys
            THEN Msg("Best match from segments", r.successful_segments, r.all_segments_tried)
            ELSE IF "segment_info" \in r.keys
            THEN Msg("Found in segment at", r.segment_info.start_time, 0)
            ELSE NoMsg)
    ELSE IF r.status = "not_found"
    THEN Response("not_found", 200, "", 0, r.message)
    ELSE Response("error", 500, "", 0, r.message)

\* A dispatcher that gives up at the first segment whose outcome is an error.
StopOnError(k, n, status) == IF status = "error" THEN n ELSE k + 1

\* An extraction loop that a failed window ends.
AbortOnFailure(k, n) == n

\* A comparison that lets a later outcome of equal confidence win.
BetterOrEqual(confidence, best) == confidence >= best

\* server.py:253, 269-271: after a segment's outcome the loop goes on with the
\* next one (k of n).
AfterOutcome(k, n, status) == k + 1

\* server.py:182-184 and 386-388: after a failed window the loop goes on with
\* the next one (k of n).
AfterFailure(k, n) == k + 1

\* server.py:265
Better(confidence, best) == confidence > best

\* What a download can do (server.py:162-181): leave the file, raise, or
\* return without a file the loop recognises.
Downloads == {"ok", "raise", "no_file"}

\* The outcome of one call of recognize_with_audd (server.py:255-258), kept with
\* the window of the segment it was called on.
Outcome(seg, r) ==
    [window_index |-> seg.window, status |-> r.status, title |-> r.title,
     confidence |-> IF r.status = "success" THEN ConfidenceOf(r) ELSE 0]

\* An entry of audio_segments (server.py:171-175, 380-384); window is the i of
\* its filename segment_{i}_..., pass tells the two lists apart.
Segment(pass, k, s) == [pass |-> pass, window |-> k, start_time |-> s]

---------------------------------------------------------------------------
(* The request *)

Idle ==
    /\ pc = "start"
    /\ strategy = "none" /\ windows = <<>> /\ i = 0
    /\ segments1 = <<>> /\ audio_data = <<>> /\ metadata = <<>>
    /\ audio_segments = <<>> /\ j = 0
    /\ best_result = <<>> /\ best_confidence = 0 /\ all_results = <<>>
    /\ result = <<>> /\ response = <<>>
    /\ attempted = <<>> /\ submitted = <<>> /\ outcomes = <<>> /\ contacted = 0

Init ==
    /\ start_time \in StartTimes
    /\ sample_multiple \in BOOLEAN
    /\ token \in BOOLEAN
    /\ duration \in Durations
    /\ Idle

\* The request ends with response r.
Finish(r) == response' = <<r>> /\ pc' = "done"

\* server.py:128-146, 186-196, 218: extract_info, then the choice of the
\* strategy and of its windows.  extract_info may raise, and so may int().
Probe(info_ok) ==
    /\ pc = "start"
    /\ LET strat == Strategy(sample_multiple, start_time, duration) IN
       IF ~info_ok \/ (strat = "specific" /\ ParseRaises(start_time))
       THEN /\ Finish(ExtractionFailed)
            /\ UNCHANGED << strategy, windows >>
       ELSE /\ strategy' = strat
            /\ windows' = WindowsOf(strat, start_time, duration)
            /\ pc' = "extract"
            /\ UNCHANGED response
    /\ UNCHANGED << start_time, sample_multiple, token, duration, i, segments1,
                    audio_data, metadata, audio_segments, j, best_result,
                    best_confidence, all_results, result, attempted, submitted,
                    outcomes, contacted >>

\* server.py:148-184 and 238-245: one turn of the first pass's loop; after the
\* last window extract_audio_from_url returns the first segment or raises, and
\* recognize_from_url takes the branch of line 337.
ExtractSegment(dl) ==
    /\ pc = "extract" /\ strategy = "multiple" /\ i < Len(windows)
    /\ LET w == windows[i + 1]
           segs == IF dl = "ok"
                   THEN Append(segments1, Segment(1, w.segment, w.start_time))
                   ELSE segments1
           next == IF dl = "ok" THEN i + 1 ELSE AfterFailure(i, Len(windows))
       IN /\ attempted' = Append(attempted, <<1, w.segment>>)
          /\ segments1' = segs
          /\ metadata' = IF dl = "ok" THEN Append(metadata, w) ELSE metadata
          /\ IF next < Len(windows)
             THEN /\ i' = next
                  /\ UNCHANGED << pc, audio_data, response >>
             ELSE IF segs = <<>>
             THEN /\ Finish(ExtractionFailed)
                  /\ UNCHANGED << i, audio_data >>
             ELSE /\ audio_data' = << segs[1] >>
                  /\ i' = 0
                  /\ pc' = IF MultiBranch(sample_multiple, duration)
                           THEN "reextract" ELSE "recognize"
                  /\ UNCHANGED response
    /\ UNCHANGED << start_time, sample_multiple, token, duration, strategy, windows,
                    audio_segments, j, best_result, best_confidence, all_results,
                    result, submitted, outcomes, contacted >>

\* server.py:198-216 and 220-236, then 238-245: the one download of the
\* "specific" and of the "default" strategy.
ExtractSingle(dl) ==
    /\ pc = "extract" /\ strategy \in {"specific", "default"}
    /\ LET w == windows[1] IN
       /\ attempted' = Append(attempted, <<1, w.segment>>)
       /\ IF dl = "ok"
          THEN /\ audio_data' = << Segment(1, w.segment, w.start_time) >>
               /\ metadata' = << w >>
               /\ pc' = IF MultiBranch(sample_multiple, duration)
                        THEN "reextract" ELSE "recognize"
               /\ UNCHANGED response
          ELSE /\ Finish(ExtractionFailed)
               /\ UNCHANGED << audio_data, metadata >>
    /\ UNCHANGED << start_time, sample_multiple, token, duration, strategy, windows,
                    i, segments1, audio_segments, j, best_result, best_confidence,
                    all_results, result, submitted, outcomes, contacted >>

\* server.py:352-395: one turn of the second pass's loop; after the last
\* window the segments go to recognize_multiple_segments, or, when there is
\* none, the first pass's audio_data goes to recognize_with_audd.
ReExtractSegment(dl) ==
    /\ pc = "reextract" /\ i < Len(ReSamplePoints(duration))
    /\ LET n == Len(ReSamplePoints(duration))
           segs == IF dl = "ok"
                   THEN Append(audio_segments,
                               Segment(2, i, ReSamplePoints(duration)[i + 1]))
                   ELSE audio_segments
           next == IF dl = "ok" THEN i + 1 ELSE AfterFailure(i, n)
       IN /\ attempted' = Append(attempted, <<2, i>>)
          /\ audio_segments' = segs
          /\ i' = next
          /\ pc' = IF next < n THEN "reextract"
                   ELSE IF segs # <<>> THEN "dispatch" ELSE "fallback"
    /\ UNCHANGED << start_time, sample_multiple, token, duration, strategy, windows,
                    segments1, audio_data, metadata, j, best_result,
                    best_confidence, all_results, result, response, submitted,
                    outcomes, contacted >>

\* server.py:253-283 and 402-417: one turn of recognize_multiple_segments'
\* loop; after the last segment the function returns and recognize_from_url
\* builds the response.
RecognizeSegment(svc) ==
    /\ pc = "dispatch" /\ j < Len(audio_segments)
    /\ svc \in AnswersFor(token)
    /\ LET seg == audio_segments[j + 1]
           r == recognize_with_audd(token, svc)
           ok == r.status = "success"
           rs == WithSegmentInfo(r, j, seg)
           all == IF ok THEN Append(all_results, rs) ELSE all_results
           wins == ok /\ Better(ConfidenceOf(r), best_confidence)
           best == IF wins THEN << rs >> ELSE best_result
           next == AfterOutcome(j, Len(audio_segments), r.status)
       IN /\ submitted' = Append(submitted, seg)
          /\ outcomes' = Append(outcomes, Outcome(seg, r))
          /\ contacted' = contacted + (IF Contacts(token) THEN 1 ELSE 0)
          /\ all_results' = all
          /\ best_result' = best
          /\ best_confidence' = IF wins THEN ConfidenceOf(r) ELSE best_confidence
          /\ j' = next
          /\ IF next < Len(audio_segments)
             THEN UNCHANGED << pc, result, response >>
             ELSE /\ result' = << Aggregate(best, all, audio_segments) >>
                  /\ Finish(ResponseOf(Aggregate(best, all, audio_segments)))
    /\ UNCHANGED << start_time, sample_multiple, token, duration, strategy, windows,
                    i, segments1, audio_data, metadata, audio_segments, attempted >>

\* server.py:396-399 and 402-417: the single recognition of audio_data.
RecognizeSingle(svc) ==
    /\ pc = "recognize"
    /\ svc \in AnswersFor(token)
    /\ LET r == recognize_with_audd(token, svc)
           rm == [r EXCEPT !.keys = @ \cup {"metadata"}]
       IN /\ submitted' = Append(submitted, audio_data[1])
          /\ outcomes' = Append(outcomes, Outcome(audio_data[1], r))
          /\ contacted' = contacted + (IF Contacts(token) THEN 1 ELSE 0)
          /\ result' = << rm >>
          /\ Finish(ResponseOf(rm))
    /\ UNCHANGED << start_time, sample_multiple, token, duration, strategy, windows,
                    i, segments1, audio_data, metadata, audio_segments, j,
                    best_result, best_confidence, all_results, attempted >>

\* server.py:393-395 and 402-417: the second pass left no segment, and the
\* first pass's audio_data is recognised instead.
RecognizeFallback(svc) ==
    /\ pc = "fallback"
    /\ svc \in AnswersFor(token)
    /\ LET r == recognize_with_audd(token, svc)
       IN /\ submitted' = Append(submitted, audio_data[1])
          /\ outcomes' = Append(outcomes, Outcome(audio_data[1], r))
          /\ contacted' = contacted + (IF Contacts(token) THEN 1 ELSE 0)
          /\ result' = << r >>
          /\ Finish(ResponseOf(r))
    /\ UNCHANGED << start_time, sample_multiple, token, duration, strategy, windows,
                    i, segments1, audio_data, metadata, audio_segments, j,
                    best_result, best_confidence, all_results, attempted >>

Next ==
    \/ \E info_ok \in BOOLEAN : Probe(info_ok)
    \/ \E dl \in Downloads : ExtractSegment(dl)
    \/ \E dl \in Downloads : ExtractSingle(dl)
    \/ \E dl \in Downloads : ReExtractSegment(dl)
    \/ \E svc \in ServiceAnswers \cup {NotCalled} : RecognizeSegment(svc)
    \/ \E svc \in ServiceAnswers \cup {NotCalled} : RecognizeSingle(svc)
    \/ \E svc \in ServiceAnswers \cup {NotCalled} : RecognizeFallback(svc)

Spec == Init /\ [][Next]_vars

\* The selector alone, on every duration up to MaxDuration.
SelectorInit ==
    /\ start_time \in StartTimes
    /\ sample_multiple \in BOOLEAN
    /\ token = TRUE
    /\ duration \in 0..MaxDuration
    /\ Idle

SelectorNext == Probe(TRUE)

SelectorSpec == SelectorInit /\ [][SelectorNext]_vars

---------------------------------------------------------------------------
(* Properties *)

Done == pc = "done"

\* The request went through recognize_multiple_segments.
Aggregated == Done /\ audio_segments # <<>>

\* The windows whose download was started in pass p.
AttemptedIn(p) == { attempted[k][2] : k \in { x \in DOMAIN attempted : attempted[x][1] = p } }

\* The indices the selector gave its windows.
WindowIndices == { windows[k].segment : k \in DOMAIN windows }

\* The positions of the outcomes with status Success.
Successes == { k \in DOMAIN outcomes : outcomes[k].status = "success" }

\* C1: when at least one outcome handed to the aggregator is a Success, the
\* verdict of recognize_multiple_segments is the Success outcome of maximum
\* confidence and, among the outcomes of that confidence, the one of the
\* smallest window index.  The winner is fixed by the outcomes' confidences and
\* window indices alone, not by the position at which an outcome arrived.
C1_BestIsEarliestMax ==
    (Aggregated /\ Successes # {}) =>
        \E w \in Successes :
            /\ \A k \in Successes : outcomes[k].confidence <= outcomes[w].confidence
            /\ \A k \in Successes :
                   outcomes[k].confidence = outcomes[w].confidence
                       => outcomes[w].window_index <= outcomes[k].window_index
            /\ result[1].status = "success"
            /\ result[1].title = outcomes[w].title
            /\ result[1].confidence = outcomes[w].confidence
            /\ result[1].segment_info.start_time = submitted[w].start_time
            /\ response[1].status = "success"
            /\ response[1].title = outcomes[w].title

\* C1's case: a non-Success outcome first, then two Success outcomes of equal
\* confidence that name different titles.
C1_Witness ==
    /\ Aggregated
    /\ Len(outcomes) >= 3
    /\ outcomes[1].status = "not_found"
    /\ outcomes[2].status = "success"
    /\ outcomes[3].status = "success"
    /\ outcomes[2].title # outcomes[3].title
    /\ response[1].title = outcomes[2].title

C6_EachSegmentOnce ==
    (pc = "dispatch" \/ Aggregated) =>
        /\ j <= Len(audio_segments)
        /\ submitted = SubSeq(audio_segments, 1, j)
        /\ Len(outcomes) = j
        /\ Done => j = Len(audio_segments)
        /\ \A a, b \in DOMAIN submitted :
               a < b => submitted[a].window < submitted[b].window

\* C6's case: an Error, a NotFound and a Success outcome, in this order, with a
\* fourth segment recognised after them.
C6_Witness ==
    /\ Aggregated
    /\ Len(submitted) = 4
    /\ outcomes[1].status = "error"
    /\ outcomes[2].status = "not_found"
    /\ outcomes[3].status = "success"

\* Pass p of the extraction was performed and retrieved no window.
AllFailedIn(p) ==
    /\ AttemptedIn(p) # {}
    /\ IF p = 1 THEN audio_data = <<>> ELSE audio_segments = <<>>

\* C3: when an extraction pass of the request retrieves none of the selected
\* windows, the request ends with an Error response and api.audd.io has not
\* been contacted; this for the first pass and for the second.
C3_AllFailedIsError ==
    \A p \in {1, 2} :
        (Done /\ AllFailedIn(p)) =>
            /\ response[1].status = "error"
            /\ contacted = 0

\* C4: the count of segments tried that the verdict of a multi-window request
\* reports (all_segments_tried, shown in the response's message; in a
\* NotFound verdict the count its message names) is the number of windows the
\* selector produced, whatever became of each window.
C4_AttemptedCountsWindows ==
    Aggregated =>
        /\ "all_segments_tried" \in result[1].keys =>
              /\ result[1].all_segments_tried = Len(windows)
              /\ response[1].message.b = Len(windows)
        /\ result[1].status = "not_found" => response[1].message.a = Len(windows)

\* C5: when the aggregator was given at least one segment and no outcome is a
\* Success, the verdict is NotFound, no segment counts as succeeded, and the
\* message names the number of segments attempted, which is the number of
\* windows selected.
C5_NoSuccessIsNotFound ==
    (Aggregated /\ Successes = {}) =>
        /\ result[1].status = "not_found"
        /\ response[1].status = "not_found"
        /\ response[1].code = 200
        /\ all_results = <<>>
        /\ response[1].message.text = "No matches found in segments analyzed"
        /\ response[1].message.a = Len(windows)

\* C7: without a token api.audd.io is never contacted, and a request whose
\* audio reached recognition ends with the Error that names the missing
\* token, in the single-window and in the multi-window path.
C7_NoTokenIsConfigError ==
    (Done /\ ~token) =>
        /\ contacted = 0
        /\ submitted # <<>> =>
              /\ response[1].status = "error"
              /\ response[1].message.text = "AudD API token not configured"

\* floor(n / d) for n >= 0.
Floor(n, d) == n \div d

\* The starts of the windows, in index order.
Starts == [k \in DOMAIN windows |-> windows[k].start_time]

\* C8: with sample_multiple the selector produces 2 windows at 0 and
\* floor(d/2) when 180 < d <= 600 and 4 windows at 0, floor(d/4), floor(d/2)
\* and floor(3d/4) when d > 600, numbered 0..n-1 in ascending start order, each
\* 30 seconds long; the second pass computes the same starts.  d = 500 gives
\* 0, 250 and d = 900 gives 0, 225, 450, 675.
C8_BroadWindows ==
    (pc = "extract" /\ sample_multiple /\ duration > 180) =>
        /\ duration <= 600 => Starts = << 0, Floor(duration, 2) >>
        /\ duration > 600 =>
              Starts = << 0, Floor(duration, 4), Floor(duration, 2),
                          Floor(3 * duration, 4) >>
        /\ \A k \in DOMAIN windows :
              /\ windows[k].segment = k - 1
              /\ windows[k].duration = 30
        /\ \A a, b \in DOMAIN windows : a < b => Starts[a] < Starts[b]
        /\ ReSamplePoints(duration) = Starts
        /\ duration = 500 => Starts = << 0, 250 >>
        /\ duration = 900 => Starts = << 0, 225, 450, 675 >>

\* C8's case: a source of 900 seconds sampled at four windows.
C8_Witness ==
    /\ pc = "extract" /\ sample_multiple /\ duration = 900
    /\ Len(windows) = 4
    /\ windows[4].start_time = 675

\* A start_time of 2 or 3 integer fields, and the second it names.
WellFormed(st) == Len(st) \in {2, 3} /\ \A k \in DOMAIN st : st[k].int
NamedSecond(st) ==
    IF Len(st) = 2 THEN 60 * st[1].v + st[2].v
    ELSE 3600 * st[1].v + 60 * st[2].v + st[3].v

\* C9: the selector's precedence.  sample_multiple on a source longer than 180
\* seconds gives the multi-window windows, with or without a start_time;
\* otherwise a start_time gives exactly one window, at the second it names;
\* otherwise there is exactly one window, at 0.  sample_multiple on a source of
\* at most 180 seconds gives exactly one window.
C9_Precedence ==
    pc = "extract" =>
        /\ IF sample_multiple /\ duration > 180
           THEN strategy = "multiple" /\ Len(windows) \in {2, 4}
           ELSE IF start_time # <<>>
           THEN /\ strategy = "specific"
                /\ Len(windows) = 1
                /\ WellFormed(start_time) =>
                       windows[1].start_time = NamedSecond(start_time)
           ELSE /\ strategy = "default"
                /\ Len(windows) = 1
                /\ windows[1].start_time = 0
        /\ (sample_multiple /\ duration <= 180) => Len(windows) = 1

\* C9's case: sample_multiple and a start_time of "1:30" on a long source; the
\* multi-window rule is the one applied.
C9_Witness ==
    /\ pc = "extract" /\ sample_multiple /\ duration > 180
    /\ start_time = << Field(1), Field(30) >>
    /\ strategy = "multiple"
    /\ windows[2].start_time # 90

Min(a, b) == IF a <= b THEN a ELSE b

\* C10: every window the selector produces on a source of known duration ends
\* within the media, its length being min(30, duration - start).
C10_WindowsFit ==
    duration > 0 =>
      \A k \in DOMAIN windows :
        /\ windows[k].start_time + windows[k].duration <= duration
        /\ windows[k].duration = Min(30, duration - windows[k].start_time)

\* The request's start_time is the one the selector parses: a start_time is
\* supplied, the source reports a duration and the multi-window rule does not
\* apply.
StartParsed ==
    /\ start_time # <<>>
    /\ duration > 0
    /\ ~(sample_multiple /\ duration > 180)

\* A start_time of exactly 2 or 3 fields, each a non-negative integer.
ValidTimeFormat(st) ==
    /\ Len(st) \in {2, 3}
    /\ \A k \in DOMAIN st : st[k].int /\ st[k].v >= 0

\* C11: a supplied start_time that is not 2 or 3 colon-separated non-negative
\* integer fields makes the request fail at parsing: no window is produced,
\* no download is started and nothing is recognised; in particular a string of
\* 1 field or of 4 or more fields is not taken as an offset.
C11_MalformedRejected ==
    (pc # "start" /\ StartParsed /\ ~ValidTimeFormat(start_time)) =>
        /\ Done
        /\ response[1].status = "error"
        /\ windows = <<>>
        /\ attempted = <<>>
        /\ submitted = <<>>

\* C12: a request whose start is at or beyond the media's duration is
\* rejected: no download is started, nothing is recognised, and the request
\* ends with an error.
C12_OutOfRangeRejected ==
    (StartParsed /\ ValidTimeFormat(start_time)
        /\ NamedSecond(start_time) >= duration) =>
        /\ attempted = <<>>
        /\ submitted = <<>>
        /\ Done => response[1].status = "error" /\ response[1].code = 400

\* The selector's index of the window that starts at second t (the starts of
\* a multi-window request are distinct).
IndexOfStart(t) ==
    CHOOSE x \in WindowIndices :
        \E k \in DOMAIN windows : windows[k].segment = x /\ windows[k].start_time = t

\* C13: the index carried by every extracted segment, and the segment number
\* recorded with every Success outcome and with the winning one, is the index
\* the selector gave the window, also when an earlier window was not
\* retrieved.
C13_IndexCarried ==
    (pc = "dispatch" \/ Aggregated) =>
        /\ \A k \in DOMAIN audio_segments :
               audio_segments[k].window = IndexOfStart(audio_segments[k].start_time)
        /\ \A k \in DOMAIN all_results :
               all_results[k].segment_info.segment_number
                   = IndexOfStart(all_results[k].segment_info.start_time)
        /\ (Aggregated /\ result[1].status = "success") =>
               result[1].segment_info.segment_number
                   = IndexOfStart(result[1].segment_info.start_time)

\* C14: a Success verdict of recognize_multiple_segments counts as successful
\* exactly the dispatched segments whose outcome was Success, with
\* 1 <= successful_segments <= all_segments_tried <= 4; its title, confidence
\* and segment info are those of one outcome, the first Success of the run,
\* which no later outcome of equal or lower confidence replaces (the artist,
\* album and release date travel in the same dict as the title).
C14_VerdictFromOneOutcome ==
    /\ (pc = "dispatch" \/ Aggregated) =>
          /\ Len(all_results) = Cardinality(Successes)
          /\ (best_result = <<>>) <=> (all_results = <<>>)
          /\ best_result # <<>> => best_result[1] = all_results[1]
    /\ (Aggregated /\ result[1].status = "success") =>
          /\ result[1].successful_segments = Cardinality(Successes)
          /\ 1 <= result[1].successful_segments
          /\ result[1].successful_segments <= result[1].all_segments_tried
          /\ result[1].all_segments_tried <= 4
          /\ result[1].all_segments_tried = Len(submitted)
          /\ \E w \in Successes :
                /\ \A k \in Successes : w <= k
                /\ \A k \in Successes : outcomes[k].confidence <= outcomes[w].confidence
                /\ result[1].title = outcomes[w].title
                /\ result[1].confidence = outcomes[w].confidence
                /\ result[1].segment_info.start_time = submitted[w].start_time
                /\ result[1].segment_info.segment_number = w - 1
                /\ response[1].title = outcomes[w].title
                /\ response[1].confidence = outcomes[w].confidence
                /\ response[1].message.a = Cardinality(Successes)
                /\ response[1].message.b = Len(submitted)

\* C14's case: four segments, of which the second and the fourth are
\* recognised with different titles; the verdict is the second's and counts
\* 2 of 4.
C14_Witness ==
    /\ Aggregated
    /\ Len(outcomes) = 4
    /\ Successes = {2, 4}
    /\ outcomes[2].title # outcomes[4].title
    /\ result[1].title = outcomes[2].title
    /\ result[1].successful_segments = 2
    /\ result[1].all_segments_tried = 4

=============================================================================
